---- MODULE Spec2Model ----
(***************************************************************************)
(* Model of the gitree selection pipeline:                                 *)
(*   FilterApplier      (services/items_selection/filter_applier.py)       *)
(*   PathResolver       (services/items_selection/path_resolver.py)        *)
(*   ItemsSelectionService.run (items_selection_service.py)                *)
(*   GitIgnore          (objects/gitignore.py)                             *)
(*   GitIgnoreMatcher   (utilities/gitignore_utility.py)                   *)
(*                                                                         *)
(* A string is a sequence of one-character strings, a path is a sequence   *)
(* of names (the path's parts below the filesystem root), so that          *)
(* rfind, lstrip, lower, split and startswith are computed, not assumed.   *)
(***************************************************************************)
EXTENDS Integers, Sequences, FiniteSets, TLC

VARIABLES
    fcall,      \* FilterApplier: the arguments and configuration of the last call
    fresult,    \* FilterApplier: what that call returned
    pr,         \* PathResolver: [resolved_cache, glob_cache]
    prcall,     \* PathResolver: the last resolve_paths call and its outcome
    run,        \* ItemsSelectionService.run: the outcome of a run
    fsig,       \* the .gitignore file of each directory (the filesystem's content)
    gi,         \* GitIgnore object: [enabled, gitignore_depth, specs, rel_path_cache, ...]
    gicall,     \* GitIgnore: the last excluded() call and its result
    reads,      \* the .gitignore files read so far (set of directories)
    gm,         \* GitIgnoreMatcher: [gitignores, exclusion_cache]
    gmcall,     \* GitIgnoreMatcher: the last excluded() call, its result, the scopes consulted
    lim,        \* FilterApplier: the configured ceilings and the last limit check
    pc,         \* PerformanceCache: its four dict caches and its two known sets
    pccall,     \* PerformanceCache: the last query, its result, each query's first answer
    nq,         \* the number of queries made to the caching components
    wk          \* GitIgnore._walk_dirs: the tree walked, the stack, visited, the yields

vars == <<fcall, fresult, pr, prcall, run, fsig, gi, gicall, reads, gm, gmcall, lim, pc, pccall, nq, wk>>

(***************************************************************************)
(* Bounds of the model.                                                    *)
(***************************************************************************)
MaxDepth == 2

(***************************************************************************)
(* Strings.                                                                *)
(***************************************************************************)
\* str.lower(), on the letters the model uses
LowerChar(c) ==
    CASE c = "P" -> "p"
      [] c = "Y" -> "y"
      [] c = "T" -> "t"
      [] c = "X" -> "x"
      [] OTHER -> c

Lower(s) == [i \in 1..Len(s) |-> LowerChar(s[i])]

\* str.lstrip(c)
RECURSIVE LStrip(_, _)
LStrip(s, c) == IF s # <<>> /\ Head(s) = c THEN LStrip(Tail(s), c) ELSE s

\* str.startswith(c) for a one-character prefix
StartsWith(s, c) == s # <<>> /\ Head(s) = c

\* str.rfind(c): the 0-based index of the last c, -1 when there is none
RFind(s, c) ==
    IF \E i \in 1..Len(s) : s[i] = c
    THEN (CHOOSE i \in 1..Len(s) : s[i] = c /\ \A j \in (i+1)..Len(s) : s[j] # c) - 1
    ELSE -1

\* s[k:] for a 0-based k
From(s, k) == SubSeq(s, k + 1, Len(s))

\* the elements of a sequence
Range(s) == {s[i] : i \in 1..Len(s)}

(***************************************************************************)
(* Paths (pathlib.PurePath, lexical operations).                           *)
(***************************************************************************)
\* Path.name
PathName(p) == IF p = <<>> THEN <<>> ELSE p[Len(p)]

\* Path.parent
Parent(p) == IF p = <<>> THEN <<>> ELSE SubSeq(p, 1, Len(p) - 1)

\* Path.is_relative_to(q) / relative_to(q) not raising
IsRelativeTo(p, q) == Len(q) <= Len(p) /\ SubSeq(p, 1, Len(q)) = q

\* Path.relative_to(q).parts
RelativeTo(p, q) == SubSeq(p, Len(q) + 1, Len(p))

\* PathResolver.is_under
is_under(path, parents) ==
    \E i \in 1..Len(parents) : path = parents[i] \/ IsRelativeTo(path, parents[i])

\* PathResolver.is_hidden
is_hidden(path) == StartsWith(PathName(path), ".")

(***************************************************************************)
(* The filesystem the selection works on (unchanged during a run).         *)
(***************************************************************************)
Nw == <<"w">>
Na == <<"a">>
Nb == <<"b">>
Nfpy == <<"f", ".", "p", "y">>
NgPY == <<"g", ".", "P", "Y">>
Nh == <<"h">>
Nenv == <<".", "e">>

Cwd == <<Nw>>

FsDirs == { <<>>, <<Nw>>, <<Nw, Na>>, <<Nw, Nb>> }
FsFiles == { <<Nw, Na, Nfpy>>, <<Nw, Na, NgPY>>, <<Nw, Nb, Nh>>, <<Nw, Nenv>> }
FsPaths == FsDirs \cup FsFiles

\* os.scandir order of a directory's entries
Listing(d) ==
    CASE d = <<>> -> << Nw >>
      [] d = <<Nw>> -> << Na, Nenv, Nb >>
      [] d = <<Nw, Na>> -> << NgPY, Nfpy >>
      [] d = <<Nw, Nb>> -> << Nh >>
      [] OTHER -> << >>

(***************************************************************************)
(* FilterApplier                                                           *)
(***************************************************************************)
\* FilterApplier.__init__: the extension set, None (here {}) without extensions
file_extensions_set(config) ==
    { LStrip(Lower(ext), ".") : ext \in config.file_extensions }

\* the buggy variant of Filter 1.5: the file's extension is compared as it is written
ext_rejects_nolower(name, exts) ==
    LET dot_idx == RFind(name, ".") IN
    IF dot_idx > 0
    THEN From(name, dot_idx + 1) \notin exts
    ELSE TRUE

\* Filter 1.5 of should_include_item, for a file under a non-empty extension set:
\* TRUE when the file is rejected
ext_rejects(name, exts) ==
    LET dot_idx == RFind(name, ".") IN
    IF dot_idx > 0
    THEN Lower(From(name, dot_idx + 1)) \notin exts
    ELSE TRUE

\* the buggy variant of should_include_item: the exclude-path filter is skipped
should_include_item_noexclude(config, item_path, curr_depth, is_dir, gi_excluded, exclude_paths, resolved_include_paths, dir_under_given_paths) ==
    LET exts == file_extensions_set(config) IN
    IF ~is_dir /\ config.no_files THEN FALSE
    ELSE IF ~is_dir /\ exts # {} /\ ext_rejects(PathName(item_path), exts) THEN FALSE
    ELSE IF ~dir_under_given_paths /\ exts = {}
            /\ ~is_dir /\ item_path \notin Range(resolved_include_paths) THEN FALSE
    ELSE IF ~dir_under_given_paths /\ exts = {}
            /\ is_dir
            /\ ~(\E i \in 1..Len(resolved_include_paths) :
                    is_under(resolved_include_paths[i], <<item_path>>)) THEN FALSE
    ELSE IF ~config.hidden_items /\ is_hidden(item_path)
            /\ item_path \notin Range(resolved_include_paths) THEN FALSE
    ELSE IF curr_depth <= config.gitignore_depth /\ gi_excluded THEN FALSE
    ELSE IF exts = {} /\ ~is_under(item_path, resolved_include_paths) THEN FALSE
    ELSE TRUE

\* FilterApplier.should_include_item; gi_excluded is gitignore_matcher.excluded(item_path)
should_include_item(config, item_path, curr_depth, is_dir, gi_excluded, exclude_paths, resolved_include_paths, dir_under_given_paths) ==
    LET exts == file_extensions_set(config) IN
    IF ~is_dir /\ config.no_files THEN FALSE
    ELSE IF ~is_dir /\ exts # {} /\ ext_rejects(PathName(item_path), exts) THEN FALSE
    ELSE IF ~dir_under_given_paths /\ exts = {}
            /\ ~is_dir /\ item_path \notin Range(resolved_include_paths) THEN FALSE
    ELSE IF ~dir_under_given_paths /\ exts = {}
            /\ is_dir
            /\ ~(\E i \in 1..Len(resolved_include_paths) :
                    is_under(resolved_include_paths[i], <<item_path>>)) THEN FALSE
    ELSE IF ~config.hidden_items /\ is_hidden(item_path)
            /\ item_path \notin Range(resolved_include_paths) THEN FALSE
    ELSE IF curr_depth <= config.exclude_depth /\ is_under(item_path, exclude_paths) THEN FALSE
    ELSE IF curr_depth <= config.gitignore_depth /\ gi_excluded THEN FALSE
    ELSE IF exts = {} /\ ~is_under(item_path, resolved_include_paths) THEN FALSE
    ELSE TRUE

\* the configurations, items and path lists the filter is called with
ExtensionLists ==
    { {}, { <<"p", "y">> }, { <<".", "P", "Y">> }, { <<"t", "x", "t">>, <<"p", "y">> } }

FilterConfigs ==
    [ no_files : BOOLEAN, file_extensions : ExtensionLists, hidden_items : BOOLEAN,
      exclude_depth : 0..(MaxDepth - 1), gitignore_depth : 0..(MaxDepth - 1) ]

\* names with several dots: k.t.PY, and the hidden .h.py
Nktpy == <<"k", ".", "t", ".", "P", "Y">>
Nhpy == <<".", "h", ".", "p", "y">>

FilterItems == (FsPaths \ { <<>> }) \cup { <<Nw, Nktpy>>, <<Nw, Nb, Nhpy>> }

IncludeLists ==
    { << Cwd >>,
      << <<Nw, Na>>, <<Nw, Na>> >>,
      << <<Nw, Na, Nfpy>>, <<Nw, Nb>>, <<Nw>> >>,
      << <<Nw, Nenv>>, <<Nw, Nenv>> >> }

ExcludeLists == { << >>, << <<Nw, Na>> >>, << <<Nw, Nb, Nh>>, <<Nw, Nenv>> >> }

NoFilterCall == [called |-> FALSE]

ShouldIncludeItem ==
    /\ fcall = NoFilterCall
    /\ \E config \in FilterConfigs, item_path \in FilterItems, curr_depth \in 0..MaxDepth,
          gi_excluded \in BOOLEAN, exclude_paths \in ExcludeLists,
          resolved_include_paths \in IncludeLists, dir_under_given_paths \in BOOLEAN :
          LET is_dir == item_path \in FsDirs IN
          /\ fcall' = [called |-> TRUE, config |-> config, item_path |-> item_path,
                       curr_depth |-> curr_depth, is_dir |-> is_dir,
                       gi_excluded |-> gi_excluded, exclude_paths |-> exclude_paths,
                       resolved_include_paths |-> resolved_include_paths,
                       dir_under_given_paths |-> dir_under_given_paths]
          /\ fresult' = should_include_item(config, item_path, curr_depth, is_dir, gi_excluded,
                                            exclude_paths, resolved_include_paths,
                                            dir_under_given_paths)
    /\ UNCHANGED <<pr, prcall, run, fsig, gi, gicall, reads, gm, gmcall>>
    /\ UNCHANGED <<lim, pc, pccall, nq, wk>>

(***************************************************************************)
(* FilterApplier: the limit checks                                         *)
(***************************************************************************)
\* the buggy variant of check_depth_limit: the depth is compared with max_depth itself
check_depth_limit_late(config, curr_depth) ==
    IF config.no_max_depth THEN FALSE ELSE curr_depth > config.max_depth

\* FilterApplier.check_depth_limit
check_depth_limit(config, curr_depth) ==
    IF config.no_max_depth THEN FALSE ELSE curr_depth > config.max_depth - 1

\* FilterApplier.check_item_limit
check_item_limit(config, items_added) ==
    IF config.no_max_items THEN FALSE ELSE items_added >= config.max_items

\* FilterApplier.check_entry_limit
check_entry_limit(config, entries_count) ==
    IF config.no_max_entries THEN FALSE ELSE entries_count >= config.max_entries

\* the ceilings configured and the counters the checks are called with
MaxLimit == 2
MaxCounter == 3

LimitConfigs ==
    [ no_max_depth : BOOLEAN, max_depth : 0..MaxLimit,
      no_max_items : BOOLEAN, max_items : 0..MaxLimit,
      no_max_entries : BOOLEAN, max_entries : 0..MaxLimit ]

NoLimitCall == [called |-> FALSE]

CheckDepthLimit ==
    /\ \E curr_depth \in 0..MaxCounter :
          lim' = [lim EXCEPT !.call = [called |-> TRUE, check |-> "depth", counter |-> curr_depth,
                                       result |-> check_depth_limit(lim.config, curr_depth)]]
    /\ UNCHANGED <<fcall, fresult, pr, prcall, run, fsig, gi, gicall, reads, gm, gmcall>>
    /\ UNCHANGED <<pc, pccall, nq, wk>>

CheckItemLimit ==
    /\ \E items_added \in 0..MaxCounter :
          lim' = [lim EXCEPT !.call = [called |-> TRUE, check |-> "items", counter |-> items_added,
                                       result |-> check_item_limit(lim.config, items_added)]]
    /\ UNCHANGED <<fcall, fresult, pr, prcall, run, fsig, gi, gicall, reads, gm, gmcall>>
    /\ UNCHANGED <<pc, pccall, nq, wk>>

CheckEntryLimit ==
    /\ \E entries_count \in 0..MaxCounter :
          lim' = [lim EXCEPT !.call = [called |-> TRUE, check |-> "entries",
                                       counter |-> entries_count,
                                       result |-> check_entry_limit(lim.config, entries_count)]]
    /\ UNCHANGED <<fcall, fresult, pr, prcall, run, fsig, gi, gicall, reads, gm, gmcall>>
    /\ UNCHANGED <<pc, pccall, nq, wk>>

(***************************************************************************)
(* PathResolver                                                            *)
(***************************************************************************)
\* str.split(sep) for a one-character separator
RECURSIVE SplitAcc(_, _, _)
SplitAcc(s, sep, cur) ==
    IF s = <<>> THEN << cur >>
    ELSE IF Head(s) = sep THEN << cur >> \o SplitAcc(Tail(s), sep, <<>>)
    ELSE SplitAcc(Tail(s), sep, Append(cur, Head(s)))

Split(s, sep) == SplitAcc(s, sep, <<>>)

Dot == << "." >>
DotDot == << ".", "." >>

\* pathlib.Path(path_str).parts of a relative path string: empty and "." parts are dropped
PathParts(path_str) == SelectSeq(Split(path_str, "/"), LAMBDA n : n # <<>> /\ n # Dot)

\* Path.resolve(strict=False) on a filesystem without symlinks: ".." is folded
RECURSIVE Normalize(_, _)
Normalize(base, parts) ==
    IF parts = <<>> THEN base
    ELSE IF Head(parts) = DotDot THEN Normalize(Parent(base), Tail(parts))
    ELSE Normalize(Append(base, Head(parts)), Tail(parts))

\* Path.exists(): every step of the path is looked up from the working directory
RECURSIVE ExistsFrom(_, _)
ExistsFrom(cur, parts) ==
    IF parts = <<>> THEN cur \in FsPaths
    ELSE IF cur \notin FsDirs THEN FALSE
    ELSE IF Head(parts) = DotDot THEN ExistsFrom(Parent(cur), Tail(parts))
    ELSE ExistsFrom(Append(cur, Head(parts)), Tail(parts))

\* PathResolver._is_glob
GlobChars == { "*", "?", "[" }
is_glob(path_str) == \E i \in 1..Len(path_str) : path_str[i] \in GlobChars

\* fnmatch of one name ("*" any run of characters, "?" any one character)
RECURSIVE FnMatch(_, _)
FnMatch(pat, name) ==
    IF pat = <<>> THEN name = <<>>
    ELSE IF Head(pat) = "*"
         THEN FnMatch(Tail(pat), name) \/ (name # <<>> /\ FnMatch(pat, Tail(name)))
    ELSE /\ name # <<>>
         /\ (Head(pat) = "?" \/ Head(pat) = Head(name))
         /\ FnMatch(Tail(pat), Tail(name))

\* glob.glob(pattern, include_hidden=True), relative to dir: the matches in listing order,
\* each as the parts of a relative path
RECURSIVE GlobFrom(_, _, _), GlobOver(_, _, _, _)
GlobOver(dir, rel, names, rest) ==
    IF names = <<>> THEN << >>
    ELSE LET n == Head(names)
             here == IF rest = <<>> THEN << Append(rel, n) >>
                     ELSE IF Append(dir, n) \in FsDirs
                          THEN GlobFrom(Append(dir, n), Append(rel, n), rest)
                          ELSE << >>
         IN here \o GlobOver(dir, rel, Tail(names), rest)

GlobFrom(dir, rel, segs) ==
    LET seg == Head(segs)
        names == IF is_glob(seg)
                 THEN SelectSeq(Listing(dir), LAMBDA n : FnMatch(seg, n))
                 ELSE IF Append(dir, seg) \in FsPaths THEN << seg >> ELSE << >>
    IN GlobOver(dir, rel, names, Tail(segs))

Glob(pattern) == GlobFrom(Cwd, <<>>, PathParts(pattern))

\* a dict: a function on the keys written so far
EmptyDict == << >>
HasKey(cache, k) == k \in DOMAIN cache
Lookup(cache, k) == cache[k]
Store(cache, k, v) == [x \in (DOMAIN cache) \cup {k} |-> IF x = k THEN v ELSE cache[x]]

\* PathResolver.__init__
NewPathResolver == [resolved_cache |-> EmptyDict, glob_cache |-> EmptyDict, base_path |-> Cwd]

\* PathResolver._resolve_single_path: [exit, path, self]
resolve_single_path(self, path_str) ==
    IF HasKey(self.resolved_cache, path_str)
    THEN [exit |-> FALSE, path |-> Lookup(self.resolved_cache, path_str), self |-> self]
    ELSE IF ~ExistsFrom(Cwd, PathParts(path_str))
    THEN [exit |-> TRUE, path |-> <<>>, self |-> self]
    ELSE LET resolved_path == Normalize(self.base_path, PathParts(path_str)) IN
         [exit |-> FALSE, path |-> resolved_path,
          self |-> [self EXCEPT !.resolved_cache = Store(@, path_str, resolved_path)]]

\* PathResolver._resolve_glob: [paths, warned, self]
resolve_glob(self, pattern) ==
    IF HasKey(self.glob_cache, pattern)
    THEN [paths |-> Lookup(self.glob_cache, pattern), warned |-> FALSE, self |-> self]
    ELSE LET matched_paths == Glob(pattern) IN
         IF matched_paths = <<>>
         THEN [paths |-> <<>>, warned |-> TRUE, self |-> self]
         ELSE LET result == [i \in 1..Len(matched_paths) |-> Normalize(Cwd, matched_paths[i])] IN
              [paths |-> result, warned |-> FALSE,
               self |-> [self EXCEPT !.glob_cache = Store(@, pattern, result)]]

\* os.path.commonpath of absolute paths: the longest common prefix of their parts
CommonPath(paths) ==
    LET first == paths[1]
        common(k) == \A i \in 1..Len(paths) :
                        Len(paths[i]) >= k /\ SubSeq(paths[i], 1, k) = SubSeq(first, 1, k)
        k == CHOOSE n \in 0..Len(first) :
                common(n) /\ \A m \in (n+1)..Len(first) : ~common(m)
    IN SubSeq(first, 1, k)

\* the loop of resolve_paths over path_strings[i..], calculated_paths so far in acc
RECURSIVE resolve_loop(_, _, _, _)
resolve_loop(self, path_strings, i, acc) ==
    IF i > Len(path_strings) THEN [exit |-> FALSE, paths |-> acc, self |-> self]
    ELSE IF is_glob(path_strings[i])
    THEN LET g == resolve_glob(self, path_strings[i]) IN
         resolve_loop(g.self, path_strings, i + 1, acc \o g.paths)
    ELSE LET r == resolve_single_path(self, path_strings[i]) IN
         IF r.exit THEN [exit |-> TRUE, paths |-> acc, self |-> r.self]
         ELSE resolve_loop(r.self, path_strings, i + 1, Append(acc, r.path))

\* the buggy variant of the last step: the common parent is put first
append_common_parent_first(calculated_paths) ==
    IF calculated_paths # <<>>
    THEN << CommonPath(calculated_paths) >> \o calculated_paths
    ELSE calculated_paths

\* resolve_paths, "Add common parent at the end"
append_common_parent(calculated_paths) ==
    IF calculated_paths # <<>>
    THEN Append(calculated_paths, CommonPath(calculated_paths))
    ELSE calculated_paths

\* PathResolver.resolve_paths: [exit, paths, self]; exit is error_and_exit having ended
\* the process
resolve_paths(self, path_strings) ==
    IF path_strings = <<>> THEN [exit |-> FALSE, paths |-> << self.base_path >>, self |-> self]
    ELSE LET l == resolve_loop(self, path_strings, 1, <<>>) IN
         IF l.exit THEN l
         ELSE [exit |-> FALSE, paths |-> append_common_parent(l.paths), self |-> l.self]

\* the path strings given on the command line
S_afpy == << "a", "/", "f", ".", "p", "y" >>
S_dot == << "." >>
S_z == << "z" >>
S_md == << "*", ".", "m", "d" >>
S_astar == << "a", "/", "*" >>
S_afstar == << "a", "/", "f", ".", "*" >>

ArgStrings == { S_afpy, S_dot, S_z, S_md, S_astar, S_afstar }

MaxArgs == 2

ArgLists == UNION { [1..n -> ArgStrings] : n \in 0..MaxArgs }

\* a resolve_paths call on a live resolver, the argument list drawn from arg_lists
ResolveStep(arg_lists) ==
    /\ ~pr.exited
    /\ \E path_strings \in arg_lists :
          LET r == resolve_paths(pr.self, path_strings) IN
          /\ pr' = [self |-> r.self, exited |-> r.exit]
          /\ prcall' = [called |-> TRUE, path_strings |-> path_strings,
                        exit |-> r.exit, paths |-> r.paths]

ResolvePaths ==
    /\ ResolveStep(ArgLists)
    /\ UNCHANGED <<fcall, fresult, run, fsig, gi, gicall, reads, gm, gmcall>>
    /\ UNCHANGED <<lim, pc, pccall, nq, wk>>

(***************************************************************************)
(* ItemsSelectionService.run                                               *)
(***************************************************************************)
\* the buggy variant of list[:-1]: the whole list
ButLast_whole(l) == l

\* list[-1] and list[:-1]
Last(l) == l[Len(l)]
ButLast(l) == SubSeq(l, 1, Len(l) - 1)

\* the buggy variant of run: the include list is handed over without its last element
service_run_without_root(include_args, exclude_args) ==
    LET path_resolver == [resolved_cache |-> << >>, glob_cache |-> << >>, base_path |-> Cwd]
        inc == resolve_paths(path_resolver, include_args)
        exc == resolve_paths(inc.self, exclude_args)
        base == [started |-> TRUE, include_args |-> include_args, exclude_args |-> exclude_args]
    IN
    IF inc.exit THEN base @@ [outcome |-> "path_not_found"]
    ELSE IF inc.paths = <<>>
    THEN base @@ [outcome |-> "IndexError", resolved_include_paths |-> inc.paths]
    ELSE IF exc.exit
    THEN base @@ [outcome |-> "path_not_found", resolved_include_paths |-> inc.paths]
    ELSE base @@ [outcome |-> "traverse",
                  resolved_include_paths |-> SubSeq(inc.paths, 1, Len(inc.paths) - 1),
                  resolved_exclude_paths |-> exc.paths,
                  root_dir |-> inc.paths[Len(inc.paths)],
                  exclude_paths |-> SubSeq(exc.paths, 1, Len(exc.paths) - 1)]

\* ItemsSelectionService.run on the include arguments (config.paths + config.include) and
\* config.exclude; the outcome is how the run ends:
\*   "path_not_found"   error_and_exit in _resolve_single_path
\*   "IndexError"       resolved_include_paths[-1] on an empty list (uncaught)
\*   "no_includes"      the safety check's message and exit(1)
\*   "traverse"         directory_traverser.traverse is called with the recorded arguments
service_run(include_args, exclude_args) ==
    LET path_resolver == NewPathResolver
        inc == resolve_paths(path_resolver, include_args)
        exc == resolve_paths(inc.self, exclude_args)
        base == [started |-> TRUE, include_args |-> include_args, exclude_args |-> exclude_args]
    IN
    IF inc.exit THEN base @@ [outcome |-> "path_not_found"]
    ELSE IF inc.paths = <<>>
    THEN base @@ [outcome |-> "IndexError", resolved_include_paths |-> inc.paths]
    ELSE IF exc.exit
    THEN base @@ [outcome |-> "path_not_found", resolved_include_paths |-> inc.paths]
    ELSE IF inc.paths = <<>>
    THEN base @@ [outcome |-> "no_includes", resolved_include_paths |-> inc.paths]
    ELSE base @@ [outcome |-> "traverse",
                  resolved_include_paths |-> inc.paths,
                  resolved_exclude_paths |-> exc.paths,
                  root_dir |-> Last(inc.paths),
                  exclude_paths |-> ButLast(exc.paths)]

MaxExcludeArgs == 1

ExcludeArgLists == UNION { [1..n -> ArgStrings] : n \in 0..MaxExcludeArgs }

Run ==
    /\ ~run.started
    /\ \E include_args \in ArgLists, exclude_args \in ExcludeArgLists :
          run' = service_run(include_args, exclude_args)
    /\ UNCHANGED <<fcall, fresult, pr, prcall, fsig, gi, gicall, reads, gm, gmcall>>
    /\ UNCHANGED <<lim, pc, pccall, nq, wk>>

(***************************************************************************)
(* The tree the gitignore rules are loaded from and asked about: /r is the *)
(* scope root. Its .gitignore files are the state variable fsig.           *)
(*   /r/f  /r/b/k  /r/s/f  /r/s/d/f  /r/o/s/f                              *)
(***************************************************************************)
Nr == <<"r">>
Ns == <<"s">>
Nd == <<"d">>
No == <<"o">>
Nf == <<"f">>
Nk == <<"k">>

GiRoot == <<Nr>>
GiSub == <<Nr, Ns>>
GiDeep == <<Nr, Ns, Nd>>
GiOther == <<Nr, No>>
GiOtherSub == <<Nr, No, Ns>>
GiBuild == <<Nr, Nb>>

GiDirs == { <<>>, GiRoot, GiSub, GiDeep, GiOther, GiOtherSub, GiBuild }
GiFiles == { <<Nr, Nf>>, <<Nr, Nb, Nk>>, <<Nr, Ns, Nf>>, <<Nr, Ns, Nd, Nf>>, <<Nr, No, Ns, Nf>> }

\* the directories that may hold a .gitignore
GiHolders == { GiRoot, GiSub, GiDeep }

\* Path.iterdir() of a directory of the tree, without the .gitignore entry
GiListing(d) ==
    CASE d = GiRoot -> << <<Nr, Nf>>, GiSub, GiBuild, GiOther >>
      [] d = GiSub -> << <<Nr, Ns, Nf>>, GiDeep >>
      [] d = GiDeep -> << <<Nr, Ns, Nd, Nf>> >>
      [] d = GiOther -> << GiOtherSub >>
      [] d = GiOtherSub -> << <<Nr, No, Ns, Nf>> >>
      [] d = GiBuild -> << <<Nr, Nb, Nk>> >>
      [] OTHER -> << >>

\* (d / ".gitignore").is_file()
HasGitignore(fs, d) == d \in DOMAIN fs /\ fs[d].exists

(***************************************************************************)
(* pathspec, "gitwildmatch" patterns over literal names (the library the   *)
(* GitIgnore object compiles its patterns with).                           *)
(***************************************************************************)
\* one compiled pattern: null patterns match nothing; a pattern with a slash at the
\* beginning or in the middle is anchored, any other matches at every level; a trailing
\* slash makes it match only below (or at, in the trailing-slash form) a directory
CompilePattern(pattern) ==
    IF pattern = <<>> \/ StartsWith(pattern, "#") \/ pattern = <<"/">>
    THEN [null |-> TRUE, include |-> TRUE, names |-> <<>>, anywhere |-> FALSE, dir_only |-> FALSE]
    ELSE LET include == ~StartsWith(pattern, "!")
             body == IF include THEN pattern ELSE Tail(pattern)
             segs == Split(body, "/")
             dir_only == segs[Len(segs)] = <<>>
             lead == segs[1] = <<>>
             anywhere == ~lead /\ (Len(segs) = 1 \/ (Len(segs) = 2 /\ segs[2] = <<>>))
             names == SelectSeq(segs, LAMBDA n : n # <<>>)
         IN [null |-> names = <<>>, include |-> include, names |-> names,
             anywhere |-> anywhere, dir_only |-> dir_only]

\* the compiled pattern's regular expression against a normalized file string
PatternMatches(cp, file) ==
    LET fsegs == Split(file, "/")
        n == Len(cp.names)
        at(k) == /\ Len(fsegs) >= k + n
                 /\ \A i \in 1..n : cp.names[i] = fsegs[k + i]
                 /\ cp.dir_only => Len(fsegs) >= k + n + 1
    IN /\ ~cp.null
       /\ IF cp.anywhere THEN \E k \in 0..Len(fsegs) : at(k) ELSE at(0)

\* the buggy variant of match_file: the first matching pattern decides
RECURSIVE match_file_first(_, _)
match_file_first(patterns, file) ==
    IF patterns = <<>> THEN FALSE
    ELSE LET cp == CompilePattern(Head(patterns)) IN
         IF PatternMatches(cp, file) THEN cp.include
         ELSE match_file_first(Tail(patterns), file)

\* PathSpec.match_file: the patterns are tried in order, each match overriding the last
RECURSIVE match_file_from(_, _, _)
match_file_from(patterns, file, matched) ==
    IF patterns = <<>> THEN matched
    ELSE LET cp == CompilePattern(Head(patterns)) IN
         match_file_from(Tail(patterns), file,
                         IF PatternMatches(cp, file) THEN cp.include ELSE matched)

match_file(patterns, file) == match_file_from(patterns, file, FALSE)

(***************************************************************************)
(* GitIgnore                                                               *)
(***************************************************************************)
\* str.strip() of blanks
RECURSIVE RStrip(_, _)
RStrip(s, c) == IF s # <<>> /\ s[Len(s)] = c THEN RStrip(SubSeq(s, 1, Len(s) - 1), c) ELSE s
Strip(s) == RStrip(LStrip(s, " "), " ")

\* PurePath.as_posix() of a relative path
RECURSIVE JoinParts(_)
JoinParts(parts) ==
    IF parts = <<>> THEN <<>>
    ELSE IF Len(parts) = 1 THEN parts[1]
    ELSE parts[1] \o <<"/">> \o JoinParts(Tail(parts))

AsPosix(parts) == IF parts = <<>> THEN <<".">> ELSE JoinParts(parts)

\* GitIgnore._parse_gitignore_file on the lines read
RECURSIVE parse_lines(_)
parse_lines(lines) ==
    IF lines = <<>> THEN <<>>
    ELSE LET line == Strip(Head(lines)) IN
         IF line = <<>> \/ StartsWith(line, "#") THEN parse_lines(Tail(lines))
         ELSE LET neg == StartsWith(line, "!")
                  pat == LStrip(IF neg THEN Tail(line) ELSE line, "/")
              IN << IF neg THEN <<"!">> \o pat ELSE pat >> \o parse_lines(Tail(lines))

\* GitIgnore._parse_gitignore_file: a file that cannot be read gives no patterns
parse_gitignore_file(fs, d) == IF HasGitignore(fs, d) THEN parse_lines(fs[d].lines) ELSE <<>>

\* GitIgnore._within_depth; gitignore_depth is <<>> for None, <<n>> for n
within_depth(gitignore_depth, root, dirpath) ==
    IF gitignore_depth = <<>> THEN TRUE
    ELSE IF ~IsRelativeTo(dirpath, root) THEN FALSE
    ELSE Len(RelativeTo(dirpath, root)) <= gitignore_depth[1]

\* a directory tree as _walk_dirs sees it: listing is iterdir() of each directory, dirs
\* the paths is_dir() is true of (a symlink to a directory included), symlinks the paths
\* is_symlink() is true of, unreadable the directories whose iterdir() raises
\* PermissionError or OSError
GiTree ==
    [listing |-> [d \in GiDirs \ { <<>> } |-> GiListing(d)],
     dirs |-> GiDirs, symlinks |-> {}, unreadable |-> {}]

\* the buggy variant of the inner loop of _walk_dirs: symlinked directories are pushed too
walk_children_follow_symlinks(tree, d) ==
    IF d \in tree.unreadable \/ d \notin DOMAIN tree.listing THEN <<>>
    ELSE SelectSeq(tree.listing[d], LAMBDA c : c \in tree.dirs)

\* the inner loop of _walk_dirs: the children of d appended to the stack, none when the
\* listing raises
walk_children(tree, d) ==
    IF d \in tree.unreadable \/ d \notin DOMAIN tree.listing THEN <<>>
    ELSE SelectSeq(tree.listing[d], LAMBDA c : c \in tree.dirs /\ c \notin tree.symlinks)

\* one iteration of the while loop of _walk_dirs: [yielded, stack, visited]
walk_iteration(tree, gitignore_depth, root, stack, visited) ==
    LET d == stack[Len(stack)]
        rest == SubSeq(stack, 1, Len(stack) - 1)
    IN IF d \in visited THEN [yielded |-> <<>>, stack |-> rest, visited |-> visited]
       ELSE IF ~within_depth(gitignore_depth, root, d)
       THEN [yielded |-> << d >>, stack |-> rest, visited |-> visited \cup {d}]
       ELSE [yielded |-> << d >>, stack |-> rest \o walk_children(tree, d),
             visited |-> visited \cup {d}]

\* GitIgnore._walk_dirs from the state (stack, visited): the directories yielded, in order
RECURSIVE walk_dirs_from(_, _, _, _, _)
walk_dirs_from(tree, gitignore_depth, root, stack, visited) ==
    IF stack = <<>> THEN <<>>
    ELSE LET it == walk_iteration(tree, gitignore_depth, root, stack, visited) IN
         it.yielded \o walk_dirs_from(tree, gitignore_depth, root, it.stack, it.visited)

walk_dirs(gitignore_depth, root) == walk_dirs_from(GiTree, gitignore_depth, root, << root >>, {})

\* the body of the loop of _collect_patterns for one .gitignore: its patterns, prefixed
RECURSIVE prefix_patterns(_, _)
prefix_patterns(prefix, file_patterns) ==
    IF file_patterns = <<>> THEN <<>>
    ELSE LET pat == Head(file_patterns)
             neg == StartsWith(pat, "!")
             base_pat == IF neg THEN Tail(pat) ELSE pat
             prefixed_pat == prefix \o LStrip(base_pat, "/")
         IN << IF neg THEN <<"!">> \o prefixed_pat ELSE prefixed_pat >>
            \o prefix_patterns(prefix, Tail(file_patterns))

\* GitIgnore._collect_patterns over the directories dirs: [patterns, read]
RECURSIVE collect_over(_, _, _)
collect_over(fs, root, dirs) ==
    IF dirs = <<>> THEN [patterns |-> <<>>, read |-> {}]
    ELSE LET d == Head(dirs)
             more == collect_over(fs, root, Tail(dirs))
         IN IF ~HasGitignore(fs, d) THEN more
            ELSE LET rel_dir == AsPosix(RelativeTo(d, root))
                     prefix == IF rel_dir = <<".">> THEN <<>> ELSE rel_dir \o <<"/">>
                 IN [patterns |-> prefix_patterns(prefix, parse_gitignore_file(fs, d))
                                    \o more.patterns,
                     read |-> {d} \cup more.read]

collect_patterns(fs, gitignore_depth, root) ==
    collect_over(fs, root, walk_dirs(gitignore_depth, root))

\* GitIgnore._norm_roots: a root that is no directory stands for its parent; no root twice
RECURSIVE norm_roots_from(_, _)
norm_roots_from(roots, seen) ==
    IF roots = <<>> THEN <<>>
    ELSE LET r == Head(roots)
             rr == IF r \in GiDirs THEN r ELSE Parent(r)
         IN IF rr \in seen THEN norm_roots_from(Tail(roots), seen)
            ELSE << rr >> \o norm_roots_from(Tail(roots), seen \cup {rr})

norm_roots(roots) == norm_roots_from(roots, {})

\* GitIgnore._load_spec_from_gitignore (called by __init__): [specs, root_path, read];
\* gitignore_dir is the directory of the .gitignore given
load_spec_from_gitignore(fs, gitignore_dir) ==
    LET patterns == parse_gitignore_file(fs, gitignore_dir) IN
    [specs |-> IF patterns # <<>>
               THEN << [root |-> gitignore_dir, patterns |-> patterns] >> ELSE <<>>,
     root_path |-> gitignore_dir,
     read |-> IF HasGitignore(fs, gitignore_dir) THEN {gitignore_dir} ELSE {}]

\* GitIgnore._load_from_roots over the normalized roots: [specs, read]
RECURSIVE load_from(_, _, _)
load_from(fs, gitignore_depth, roots) ==
    IF roots = <<>> THEN [specs |-> <<>>, read |-> {}]
    ELSE LET c == collect_patterns(fs, gitignore_depth, Head(roots))
             more == load_from(fs, gitignore_depth, Tail(roots))
         IN [specs |-> (IF c.patterns # <<>>
                        THEN << [root |-> Head(roots), patterns |-> c.patterns] >> ELSE <<>>)
                       \o more.specs,
             read |-> c.read \cup more.read]

load_from_roots(fs, gitignore_depth, roots) == load_from(fs, gitignore_depth, norm_roots(roots))

\* GitIgnore._get_relative_path_cached: [rel, cache]; rel is <<>> for None, <<string>> else
get_relative_path_cached(cache, path, root) ==
    LET cache_key == << path, root >> IN
    IF HasKey(cache, cache_key) THEN [rel |-> Lookup(cache, cache_key), cache |-> cache]
    ELSE LET rel == IF IsRelativeTo(path, root) THEN << AsPosix(RelativeTo(path, root)) >>
                    ELSE <<>>
         IN [rel |-> rel, cache |-> Store(cache, cache_key, rel)]

\* the loop of GitIgnore.excluded over self._specs[i..]: [result, cache]
RECURSIVE excluded_loop(_, _, _, _, _)
excluded_loop(specs, i, cache, p, is_dir) ==
    IF i > Len(specs) THEN [result |-> FALSE, cache |-> cache]
    ELSE LET r == get_relative_path_cached(cache, p, specs[i].root) IN
         IF r.rel = <<>> THEN excluded_loop(specs, i + 1, r.cache, p, is_dir)
         ELSE IF match_file(specs[i].patterns, r.rel[1])
              THEN [result |-> TRUE, cache |-> r.cache]
         ELSE IF is_dir /\ match_file(specs[i].patterns, r.rel[1] \o <<"/">>)
              THEN [result |-> TRUE, cache |-> r.cache]
         ELSE excluded_loop(specs, i + 1, r.cache, p, is_dir)

\* the buggy variant of GitIgnore.excluded: the enabled flag is not looked at
gitignore_excluded_always(self, item_path) ==
    LET l == excluded_loop(self.specs, 1, self.rel_path_cache, item_path,
                           item_path \in GiDirs)
    IN [result |-> l.result, self |-> [self EXCEPT !.rel_path_cache = l.cache],
        fs_access |-> {"resolve", "is_dir"}]

\* GitIgnore.excluded: [result, self, fs_access]; fs_access are the filesystem calls made
gitignore_excluded(self, item_path) ==
    IF ~self.enabled THEN [result |-> FALSE, self |-> self, fs_access |-> {}]
    ELSE LET l == excluded_loop(self.specs, 1, self.rel_path_cache, item_path,
                                item_path \in GiDirs)
         IN [result |-> l.result, self |-> [self EXCEPT !.rel_path_cache = l.cache],
             fs_access |-> {"resolve", "is_dir"}]

\* GitIgnore.__init__
new_gitignore(fs, config, gitignore_dir) ==
    LET l == load_spec_from_gitignore(fs, gitignore_dir) IN
    [self |-> [built |-> TRUE, enabled |-> config.gitignore,
               gitignore_depth |-> config.gitignore_depth,
               specs |-> l.specs, rel_path_cache |-> EmptyDict, root_path |-> l.root_path,
               recursive |-> FALSE],
     read |-> l.read]

\* the .gitignore lines of the model
L_f == << "f" >>
L_nf == << "!", "f" >>
L_comment == << "#", "c" >>
L_blank == << " " >>
L_bdir == << "b", "/" >>
L_nbk == << " ", "!", "/", "b", "/", "k" >>
L_b == << "b" >>
L_nbdir == << "!", "b", "/" >>
L_slash == << "/" >>

NoFile == [exists |-> FALSE, lines |-> <<>>]
File(lines) == [exists |-> TRUE, lines |-> lines]

RootFiles == { NoFile, File(<< L_comment, L_bdir, L_blank, L_nbk >>), File(<< L_b, L_nbdir >>),
               File(<< L_f >>) }
SubFiles == { NoFile, File(<< L_f >>), File(<< L_nf >>), File(<< L_slash >>) }
DeepFiles == { NoFile, File(<< L_f >>) }

FsContents ==
    { fs \in [GiHolders -> RootFiles \cup SubFiles \cup DeepFiles] :
        /\ fs[GiRoot] \in RootFiles
        /\ fs[GiSub] \in SubFiles
        /\ fs[GiDeep] \in DeepFiles }

MaxGitignoreDepth == 1

GitignoreConfigs ==
    { c \in [ gitignore : BOOLEAN,
              gitignore_depth : { <<>> } \cup { << n >> : n \in 0..MaxGitignoreDepth } ] :
        ~c.gitignore => c.gitignore_depth = <<>> }

QueryPaths ==
    { <<Nr, Nf>>, <<Nr, Ns, Nf>>, <<Nr, Ns, Nd, Nf>>, GiOtherSub, <<Nr, No, Ns, Nf>>, GiBuild,
      <<Nr, Nb, Nk>> }

MaxQueries == 2

\* GitIgnore(ctx, config, gitignore_path)
Construct ==
    /\ ~gi.built
    /\ \E config \in GitignoreConfigs, gitignore_dir \in { GiRoot, GiSub } :
          LET n == new_gitignore(fsig, config, gitignore_dir) IN
          /\ gi' = n.self
          /\ reads' = reads \cup n.read
    /\ UNCHANGED <<fcall, fresult, pr, prcall, run, fsig, gicall, gm, gmcall>>
    /\ UNCHANGED <<lim, pc, pccall, nq, wk>>

\* GitIgnore._load_from_roots([root]) on the scope root: the recursive mode, entered
\* before the object is asked about paths
LoadFromRoots ==
    /\ gi.built /\ ~gi.recursive /\ ~gicall.called
    /\ LET l == load_from_roots(fsig, gi.gitignore_depth, << GiRoot >>) IN
       /\ gi' = [gi EXCEPT !.specs = l.specs, !.rel_path_cache = EmptyDict, !.recursive = TRUE]
       /\ reads' = reads \cup l.read
    /\ UNCHANGED <<fcall, fresult, pr, prcall, run, fsig, gicall, gm, gmcall>>
    /\ UNCHANGED <<lim, pc, pccall, nq, wk>>

\* GitIgnore.excluded(item_path)
Excluded ==
    /\ gi.built
    /\ gicall.n < MaxQueries
    /\ \E item_path \in QueryPaths :
          LET e == gitignore_excluded(gi, item_path) IN
          /\ gi' = e.self
          /\ gicall' = [called |-> TRUE, n |-> gicall.n + 1, item_path |-> item_path,
                        result |-> e.result, fs_access |-> e.fs_access]
    /\ UNCHANGED <<fcall, fresult, pr, prcall, run, fsig, reads, gm, gmcall>>
    /\ UNCHANGED <<lim, pc, pccall, nq, wk>>

(***************************************************************************)
(* GitIgnore._walk_dirs, iteration by iteration, over trees that list      *)
(* their entries in any order, hold a symlink /r/o/l to the scope root and *)
(* directories that cannot be listed.                                      *)
(***************************************************************************)
Nl == <<"l">>
GiLink == <<Nr, No, Nl>>

\* the orders a directory may list the entries in
Orders(entries) ==
    { o \in [1..Cardinality(entries) -> entries] :
        \A i, j \in 1..Cardinality(entries) : i # j => o[i] # o[j] }

WalkTrees ==
    { [listing |-> [d \in GiDirs \ { <<>> } |->
                       IF d = GiRoot THEN root_order
                       ELSE IF d = GiOther THEN other_order
                       ELSE GiListing(d)],
       dirs |-> GiDirs \cup { GiLink },
       symlinks |-> { GiLink },
       unreadable |-> unreadable] :
        root_order \in Orders({ <<Nr, Nf>>, GiSub, GiBuild, GiOther }),
        other_order \in Orders({ GiOtherSub, GiLink }),
        unreadable \in SUBSET { GiSub, GiOther } }

\* the .gitignore files under the trees walked
WalkFs ==
    { fs \in FsContents :
        /\ fs[GiRoot] = File(<< L_f >>)
        /\ fs[GiSub] = File(<< L_nf >>)
        /\ fs[GiDeep] \in { NoFile, File(<< L_b >>) } }

\* stack = [root]; visited = set()
NewWalk(tree, gitignore_depth, root) ==
    [tree |-> tree, gitignore_depth |-> gitignore_depth, root |-> root,
     stack |-> << root >>, visited |-> {}, yielded |-> <<>>]

\* one iteration of the while loop of _walk_dirs
WalkIteration ==
    /\ wk.stack # <<>>
    /\ LET it == walk_iteration(wk.tree, wk.gitignore_depth, wk.root, wk.stack, wk.visited) IN
       wk' = [wk EXCEPT !.stack = it.stack, !.visited = it.visited,
                        !.yielded = @ \o it.yielded]
    /\ UNCHANGED <<fcall, fresult, pr, prcall, run, fsig, gi, gicall, reads, gm, gmcall>>
    /\ UNCHANGED <<lim, pc, pccall, nq>>

(***************************************************************************)
(* GitIgnoreMatcher                                                        *)
(***************************************************************************)
\* GitIgnoreMatcher._max_cache_size, 10000 in the source: the overflow branch is kept and
\* the size is scaled down so that the paths of the model reach it
max_cache_size == 2

\* GitIgnoreMatcher.__init__
NewMatcher == [gitignores |-> <<>>, exclusion_cache |-> EmptyDict]

\* the buggy variant of add_gitignore: the cache is kept
add_gitignore_keep_cache(self, gitignore, root_path) ==
    [self EXCEPT !.gitignores = Append(@, [root_path |-> root_path, gitignore |-> gitignore])]

\* GitIgnoreMatcher.add_gitignore
add_gitignore(self, gitignore, root_path) ==
    [self EXCEPT !.gitignores = Append(@, [root_path |-> root_path, gitignore |-> gitignore]),
                 !.exclusion_cache = EmptyDict]

\* the buggy variant of _is_path_in_scope: every scope applies
is_path_in_scope_any(item_path, gitignore_root) == TRUE

\* GitIgnoreMatcher._is_path_in_scope
is_path_in_scope(item_path, gitignore_root) == IsRelativeTo(item_path, gitignore_root)

\* the loop of GitIgnoreMatcher.excluded over self.gitignores[i..]: [result, consulted];
\* consulted are the scopes whose GitIgnore.excluded was called
RECURSIVE scopes_loop(_, _, _, _)
scopes_loop(gitignores, i, item_path, consulted) ==
    IF i > Len(gitignores) THEN [result |-> FALSE, consulted |-> consulted]
    ELSE IF ~is_path_in_scope(item_path, gitignores[i].root_path)
    THEN scopes_loop(gitignores, i + 1, item_path, consulted)
    ELSE IF gitignore_excluded(gitignores[i].gitignore, item_path).result
    THEN [result |-> TRUE, consulted |-> consulted \cup {i}]
    ELSE scopes_loop(gitignores, i + 1, item_path, consulted \cup {i})

\* GitIgnoreMatcher.excluded: [result, self, consulted, hit]
matcher_excluded(self, item_path) ==
    LET path_key == item_path IN
    IF HasKey(self.exclusion_cache, path_key)
    THEN [result |-> Lookup(self.exclusion_cache, path_key), self |-> self,
          consulted |-> {}, hit |-> TRUE]
    ELSE LET l == scopes_loop(self.gitignores, 1, item_path, {})
             cache == IF Cardinality(DOMAIN self.exclusion_cache) < max_cache_size
                      THEN Store(self.exclusion_cache, path_key, l.result)
                      ELSE Store(EmptyDict, path_key, l.result)
         IN [result |-> l.result, self |-> [self EXCEPT !.exclusion_cache = cache],
             consulted |-> l.consulted, hit |-> FALSE]

\* the GitIgnore objects registered: built from the .gitignore of the scope root or of
\* /r/s, each registered under a root path of the caller's choice. The object's own
\* relative-path cache is left out of the matcher's state
EnabledConfig == [gitignore |-> TRUE, gitignore_depth |-> <<>>]
ScopeObjects == { new_gitignore(fsig, EnabledConfig, d).self : d \in { GiRoot, GiSub } }
ScopeRoots == { GiRoot, GiSub }

MatcherPaths == { <<Nr, Nf>>, <<Nr, Ns, Nf>>, <<Nr, No, Ns, Nf>>, <<Nr, Nb, Nk>> }

MatcherFs ==
    { fs \in FsContents :
        /\ fs[GiRoot] = File(<< L_f >>)
        /\ fs[GiSub] \in { File(<< L_f >>), File(<< L_nf >>) }
        /\ fs[GiDeep] = NoFile }

MaxScopes == 2

NoMatcherCall == [called |-> FALSE]

AddGitignore ==
    /\ Len(gm.gitignores) < MaxScopes
    /\ \E gitignore \in ScopeObjects, root_path \in ScopeRoots :
          gm' = add_gitignore(gm, gitignore, root_path)
    /\ UNCHANGED <<fcall, fresult, pr, prcall, run, fsig, gi, gicall, reads, gmcall>>
    /\ UNCHANGED <<lim, pc, pccall, nq, wk>>

MatcherExcluded ==
    /\ \E item_path \in MatcherPaths :
          LET e == matcher_excluded(gm, item_path) IN
          /\ gm' = e.self
          /\ gmcall' = [called |-> TRUE, item_path |-> item_path, result |-> e.result,
                        consulted |-> e.consulted, hit |-> e.hit,
                        gitignores |-> gm.gitignores,
                        prev |-> IF gmcall.called
                                 THEN << [item_path |-> gmcall.item_path,
                                          result |-> gmcall.result] >>
                                 ELSE << >>]
    /\ UNCHANGED <<fcall, fresult, pr, prcall, run, fsig, gi, gicall, reads>>
    /\ UNCHANGED <<lim, pc, pccall, nq, wk>>

(***************************************************************************)
(* PerformanceCache                                                        *)
(***************************************************************************)
\* str(path) of an absolute path
PathStr(path) == <<"/">> \o JoinParts(path)

\* Path.exists(), Path.is_dir() and Path.resolve(strict=False) of an absolute path whose
\* parts may hold ".."
PathExists(path) == ExistsFrom(<<>>, path)
PathIsDir(path) == PathExists(path) /\ Normalize(<<>>, path) \in FsDirs
PathResolve(path) == Normalize(<<>>, path)

\* PerformanceCache.__init__
NewPerformanceCache(max_cache_size_arg) ==
    [max_cache_size |-> max_cache_size_arg,
     is_dir_cache |-> EmptyDict, exists_cache |-> EmptyDict,
     resolved_path_cache |-> EmptyDict, is_under_cache |-> EmptyDict,
     known_dirs |-> {}, known_files |-> {}]

\* PerformanceCache._cache_with_limit: the cache after the insertion
cache_with_limit(self, cache, key, value) ==
    IF Cardinality(DOMAIN cache) < self.max_cache_size
    THEN Store(cache, key, value)
    ELSE Store(EmptyDict, key, value)

\* PerformanceCache.is_dir_cached: [result, self, computed]; computed is the filesystem
\* having been asked
is_dir_cached(self, path) ==
    LET path_str == PathStr(path) IN
    IF path_str \in self.known_dirs THEN [result |-> TRUE, self |-> self, computed |-> FALSE]
    ELSE IF path_str \in self.known_files
    THEN [result |-> FALSE, self |-> self, computed |-> FALSE]
    ELSE IF HasKey(self.is_dir_cache, path_str)
    THEN [result |-> Lookup(self.is_dir_cache, path_str), self |-> self, computed |-> FALSE]
    ELSE LET result == PathIsDir(path)
             cached == [self EXCEPT !.is_dir_cache = cache_with_limit(self, @, path_str, result)]
         IN [result |-> result,
             self |-> IF result
                      THEN [cached EXCEPT !.known_dirs = @ \cup {path_str}]
                      ELSE [cached EXCEPT !.known_files = @ \cup {path_str}],
             computed |-> TRUE]

\* PerformanceCache.exists_cached
exists_cached(self, path) ==
    LET path_str == PathStr(path) IN
    IF HasKey(self.exists_cache, path_str)
    THEN [result |-> Lookup(self.exists_cache, path_str), self |-> self, computed |-> FALSE]
    ELSE LET result == PathExists(path) IN
         [result |-> result,
          self |-> [self EXCEPT !.exists_cache = cache_with_limit(self, @, path_str, result)],
          computed |-> TRUE]

\* PerformanceCache.resolve_cached
resolve_cached(self, path) ==
    LET path_str == PathStr(path) IN
    IF HasKey(self.resolved_path_cache, path_str)
    THEN [result |-> Lookup(self.resolved_path_cache, path_str), self |-> self,
          computed |-> FALSE]
    ELSE LET result == PathResolve(path) IN
         [result |-> result,
          self |-> [self EXCEPT
                      !.resolved_path_cache = cache_with_limit(self, @, path_str, result)],
          computed |-> TRUE]

\* the buggy variant of is_under_cached: the cache key is the child alone
is_under_cached_childkey(self, child, parent) ==
    LET cache_key == PathStr(child) IN
    IF HasKey(self.is_under_cache, cache_key)
    THEN [result |-> Lookup(self.is_under_cache, cache_key), self |-> self, computed |-> FALSE]
    ELSE LET result == (child = parent) \/ IsRelativeTo(child, parent) IN
         [result |-> result,
          self |-> [self EXCEPT !.is_under_cache = cache_with_limit(self, @, cache_key, result)],
          computed |-> TRUE]

\* PerformanceCache.is_under_cached
is_under_cached(self, child, parent) ==
    LET cache_key == << PathStr(child), PathStr(parent) >> IN
    IF HasKey(self.is_under_cache, cache_key)
    THEN [result |-> Lookup(self.is_under_cache, cache_key), self |-> self, computed |-> FALSE]
    ELSE LET result == (child = parent) \/ IsRelativeTo(child, parent) IN
         [result |-> result,
          self |-> [self EXCEPT
                      !.is_under_cache =
                          IF Cardinality(DOMAIN self.is_under_cache) < self.max_cache_size
                          THEN Store(@, cache_key, result)
                          ELSE Store(EmptyDict, cache_key, result)],
          computed |-> TRUE]

\* PerformanceCache(max_cache_size), 50000 by default: the size is scaled down so that the
\* paths of the model overflow the caches
pc_max_cache_size == 1

\* the paths the cache is asked about: two directories (one written with ".."), a file,
\* a path that does not exist
PcPaths == { <<Nw, Na>>, <<Nw, Na, DotDot, Nb>>, <<Nw, Na, Nfpy>>, <<Nw, S_z>> }
PcParents == { <<Nw>>, <<Nw, Na>> }

\* the argument lists resolve_paths is asked about next to the cache
PcArgLists == { << >>, << S_afpy >>, << S_astar >>, << S_md, S_dot >>, << S_z >> }

MaxCacheQueries == 4

NoCacheCall == [called |-> FALSE, first |-> EmptyDict]

\* the record of a query and its answer; first keeps each query's first answer
CacheCall(query, result, computed) ==
    [called |-> TRUE, query |-> query, result |-> result, computed |-> computed,
     repeated |-> HasKey(pccall.first, query),
     first |-> IF HasKey(pccall.first, query) THEN pccall.first
               ELSE Store(pccall.first, query, result)]

IsDirCached ==
    /\ ~pr.exited /\ nq < MaxCacheQueries
    /\ \E path \in PcPaths :
          LET r == is_dir_cached(pc, path) IN
          /\ pc' = r.self
          /\ pccall' = CacheCall(<< "is_dir", path >>, r.result, r.computed)
    /\ nq' = nq + 1
    /\ UNCHANGED <<fcall, fresult, pr, prcall, run, fsig, gi, gicall, reads, gm, gmcall>>
    /\ UNCHANGED <<lim, wk>>

ExistsCached ==
    /\ ~pr.exited /\ nq < MaxCacheQueries
    /\ \E path \in PcPaths :
          LET r == exists_cached(pc, path) IN
          /\ pc' = r.self
          /\ pccall' = CacheCall(<< "exists", path >>, r.result, r.computed)
    /\ nq' = nq + 1
    /\ UNCHANGED <<fcall, fresult, pr, prcall, run, fsig, gi, gicall, reads, gm, gmcall>>
    /\ UNCHANGED <<lim, wk>>

ResolveCached ==
    /\ ~pr.exited /\ nq < MaxCacheQueries
    /\ \E path \in PcPaths :
          LET r == resolve_cached(pc, path) IN
          /\ pc' = r.self
          /\ pccall' = CacheCall(<< "resolve", path >>, r.result, r.computed)
    /\ nq' = nq + 1
    /\ UNCHANGED <<fcall, fresult, pr, prcall, run, fsig, gi, gicall, reads, gm, gmcall>>
    /\ UNCHANGED <<lim, wk>>

IsUnderCached ==
    /\ ~pr.exited /\ nq < MaxCacheQueries
    /\ \E child \in PcPaths, parent \in PcParents :
          LET r == is_under_cached(pc, child, parent) IN
          /\ pc' = r.self
          /\ pccall' = CacheCall(<< "is_under", child, parent >>, r.result, r.computed)
    /\ nq' = nq + 1
    /\ UNCHANGED <<fcall, fresult, pr, prcall, run, fsig, gi, gicall, reads, gm, gmcall>>
    /\ UNCHANGED <<lim, wk>>

\* PathResolver.resolve_paths, called next to the cache queries
CacheResolvePaths ==
    /\ nq < MaxCacheQueries
    /\ ResolveStep(PcArgLists)
    /\ pccall' = CacheCall(<< "resolve_paths", prcall'.path_strings >>,
                           [exit |-> prcall'.exit,
                            paths |-> IF prcall'.exit THEN << >> ELSE prcall'.paths],
                           TRUE)
    /\ nq' = nq + 1
    /\ UNCHANGED <<fcall, fresult, run, fsig, gi, gicall, reads, gm, gmcall>>
    /\ UNCHANGED <<lim, pc, wk>>

(***************************************************************************)
(* Idle values of the components a specification does not exercise.        *)
(***************************************************************************)
IdleFilter == fcall = NoFilterCall /\ fresult = FALSE
IdleResolver == pr = [self |-> NewPathResolver, exited |-> FALSE] /\ prcall = [called |-> FALSE]
IdleRun == run = [started |-> FALSE]
NoGitIgnoreCall == [called |-> FALSE, n |-> 0]
IdleGitIgnore ==
    /\ fsig = [d \in GiHolders |-> NoFile]
    /\ gi = [built |-> FALSE]
    /\ gicall = NoGitIgnoreCall
    /\ reads = {}
IdleMatcher == gm = NewMatcher /\ gmcall = [called |-> FALSE]
IdleCache == pc = NewPerformanceCache(pc_max_cache_size) /\ pccall = NoCacheCall /\ nq = 0
IdleWalk == wk = [stack |-> <<>>]
IdleLimits ==
    lim = [config |-> [no_max_depth |-> TRUE, max_depth |-> 0, no_max_items |-> TRUE,
                       max_items |-> 0, no_max_entries |-> TRUE, max_entries |-> 0],
           call |-> NoLimitCall]

(***************************************************************************)
(* Specification of the filter chain.                                      *)
(***************************************************************************)
InitFilter == IdleLimits /\ IdleCache /\ IdleWalk /\ IdleFilter /\ IdleResolver /\ IdleRun /\ IdleGitIgnore /\ IdleMatcher

NextFilter == ShouldIncludeItem

SpecFilter == InitFilter /\ [][NextFilter]_vars

(***************************************************************************)
(* C1: should_include_item returns TRUE exactly when the item passes every *)
(* applicable filter of the fixed list (AND semantics): files-only,        *)
(* extension allow-list, explicit membership, hidden items, exclude paths  *)
(* within the exclude depth, gitignore within the gitignore depth,         *)
(* include-path confinement. Each filter is stated on its own, from the    *)
(* arguments of the call.                                                  *)
(***************************************************************************)
ExtFiltering(c) == c.config.file_extensions # {}

PassFilesOnly(c) == ~(c.config.no_files /\ ~c.is_dir)

PassExtension(c) ==
    (ExtFiltering(c) /\ ~c.is_dir) =>
        LET name == PathName(c.item_path) IN
        \E i \in 2..Len(name) :
            /\ name[i] = "."
            /\ \A j \in (i+1)..Len(name) : name[j] # "."
            /\ \E x \in c.config.file_extensions :
                  Lower(SubSeq(name, i + 1, Len(name))) = LStrip(Lower(x), ".")

PassExplicit(c) ==
    (~ExtFiltering(c) /\ ~c.dir_under_given_paths) =>
        IF c.is_dir
        THEN \E t \in Range(c.resolved_include_paths) :
                t = c.item_path \/ IsRelativeTo(t, c.item_path)
        ELSE c.item_path \in Range(c.resolved_include_paths)

PassHidden(c) ==
    ~( ~c.config.hidden_items
       /\ PathName(c.item_path)[1] = "."
       /\ c.item_path \notin Range(c.resolved_include_paths) )

PassExcludePaths(c) ==
    ~( c.curr_depth <= c.config.exclude_depth
       /\ \E e \in Range(c.exclude_paths) : IsRelativeTo(c.item_path, e) )

PassGitignore(c) == ~( c.curr_depth <= c.config.gitignore_depth /\ c.gi_excluded )

PassConfinement(c) ==
    ~ExtFiltering(c) =>
        \E t \in Range(c.resolved_include_paths) : IsRelativeTo(c.item_path, t)

PassesEveryFilter(c) ==
    /\ PassFilesOnly(c)
    /\ PassExtension(c)
    /\ PassExplicit(c)
    /\ PassHidden(c)
    /\ PassExcludePaths(c)
    /\ PassGitignore(c)
    /\ PassConfinement(c)

\* C1: the result of should_include_item is the conjunction of the seven filters
C1_AndSemantics == fcall.called => (fresult = PassesEveryFilter(fcall))

\* C1 witness: an item rejected by the exclude-path filter alone, every other filter passing
C1_Witness ==
    /\ fcall.called
    /\ ~fresult
    /\ ~PassExcludePaths(fcall)
    /\ PassFilesOnly(fcall) /\ PassExtension(fcall) /\ PassExplicit(fcall)
    /\ PassHidden(fcall) /\ PassGitignore(fcall) /\ PassConfinement(fcall)

\* the allow-list as it is compared: lower-cased, without leading dots
AllowList(c) == { LStrip(Lower(x), ".") : x \in c.config.file_extensions }

\* the name has a "." at an index greater than 0 (the second character or later)
HasDotPastStart(name) == \E i \in 2..Len(name) : name[i] = "."

\* the substring after the last "."
AfterLastDot(name) ==
    LET i == CHOOSE k \in 1..Len(name) :
                 name[k] = "." /\ \A j \in (k+1)..Len(name) : name[j] # "."
    IN SubSeq(name, i + 1, Len(name))

PassesExtensionFilter(c) ==
    LET name == PathName(c.item_path) IN
    HasDotPastStart(name) /\ Lower(AfterLastDot(name)) \in AllowList(c)

\* the allow-list {"py"} of the example
PyOnly == { <<"p", "y">> }

\* C11: with a non-empty extension allow-list a file is included iff it passes the other
\* filters in force and its name has a "." at an index greater than 0 with the substring
\* after the last ".", lower-cased, in the allow-list (lower-cased, leading dots dropped);
\* a directory is included iff it passes the other filters, whatever its name. With the
\* allow-list {"py"}, g.PY passes and h (no extension) and .e (dot at position 0) are
\* excluded
C11_ExtensionFilter ==
    (fcall.called /\ ExtFiltering(fcall)) =>
        /\ fcall.is_dir =>
              fresult = (PassHidden(fcall) /\ PassExcludePaths(fcall) /\ PassGitignore(fcall))
        /\ ~fcall.is_dir =>
              fresult = ( /\ PassesExtensionFilter(fcall)
                          /\ PassFilesOnly(fcall) /\ PassHidden(fcall)
                          /\ PassExcludePaths(fcall) /\ PassGitignore(fcall) )
        /\ (fcall.config.file_extensions = PyOnly /\ ~fcall.is_dir) =>
              /\ PathName(fcall.item_path) = NgPY => PassesExtensionFilter(fcall)
              /\ PathName(fcall.item_path) \in { Nh, Nenv } => ~fresult

\* C11 witness: g.PY included under the allow-list {"py"}
C11_Witness ==
    /\ fcall.called /\ fcall.config.file_extensions = PyOnly
    /\ PathName(fcall.item_path) = NgPY
    /\ fresult

(***************************************************************************)
(* Specification of the limit checks of a FilterApplier whose ceilings are *)
(* any of the configurations.                                              *)
(***************************************************************************)
InitLimits ==
    /\ IdleCache /\ IdleWalk /\ IdleFilter /\ IdleResolver /\ IdleRun /\ IdleGitIgnore
    /\ IdleMatcher
    /\ lim \in [config : LimitConfigs, call : { NoLimitCall }]

NextLimits == CheckDepthLimit \/ CheckItemLimit \/ CheckEntryLimit

SpecLimits == InitLimits /\ [][NextLimits]_vars

\* C12: each limit check is false when its unbounded flag is set; when bounded,
\* check_depth_limit(d) is true iff d > max_depth - 1, check_item_limit(n) iff
\* n >= max_items, check_entry_limit(n) iff n >= max_entries
C12_LimitChecks ==
    lim.call.called =>
        LET c == lim.config
            n == lim.call.counter
            r == lim.call.result
        IN /\ lim.call.check = "depth" =>
                 IF c.no_max_depth THEN ~r ELSE (r <=> n > c.max_depth - 1)
           /\ lim.call.check = "items" =>
                 IF c.no_max_items THEN ~r ELSE (r <=> n >= c.max_items)
           /\ lim.call.check = "entries" =>
                 IF c.no_max_entries THEN ~r ELSE (r <=> n >= c.max_entries)

\* C12 witness: a bounded depth check at the depth max_depth itself, reported exceeded
C12_Witness ==
    /\ lim.call.called /\ lim.call.check = "depth"
    /\ ~lim.config.no_max_depth
    /\ lim.call.counter = lim.config.max_depth
    /\ lim.call.result

(***************************************************************************)
(* Specification of a PathResolver answering resolve_paths calls.          *)
(***************************************************************************)
InitResolve == IdleLimits /\ IdleCache /\ IdleWalk /\ IdleFilter /\ IdleResolver /\ IdleRun /\ IdleGitIgnore /\ IdleMatcher

NextResolve == ResolvePaths

SpecResolve == InitResolve /\ [][NextResolve]_vars

\* each argument's own resolution, from the filesystem alone (no cache)
ArgResolution(path_str) ==
    IF is_glob(path_str)
    THEN LET m == Glob(path_str) IN [i \in 1..Len(m) |-> Cwd \o m[i]]
    ELSE << Normalize(Cwd, PathParts(path_str)) >>

RECURSIVE ConcatResolutions(_)
ConcatResolutions(path_strings) ==
    IF path_strings = <<>> THEN <<>>
    ELSE ArgResolution(Head(path_strings)) \o ConcatResolutions(Tail(path_strings))

\* the returned paths before the appended common ancestor
Calculated(c) == SubSeq(c.paths, 1, Len(c.paths) - 1)

Returned(c) == c.called /\ ~c.exit /\ c.path_strings # <<>>
\* C3: the last element returned by resolve_paths for a non-empty argument list is the
\* common ancestor directory of the others: a directory, and an ancestor of or equal to
\* every other element
C3_LastIsCommonAncestorDirectory ==
    (Returned(prcall) /\ prcall.paths # <<>>) =>
        /\ Last(prcall.paths) \in FsDirs
        /\ \A i \in 1..(Len(prcall.paths) - 1) :
              IsRelativeTo(prcall.paths[i], Last(prcall.paths))

InitRun == IdleLimits /\ IdleCache /\ IdleWalk /\ IdleFilter /\ IdleResolver /\ IdleRun /\ IdleGitIgnore /\ IdleMatcher

NextRun == Run

SpecRun == InitRun /\ [][NextRun]_vars

\* the include arguments resolve to zero paths: none is a literal path and no glob matches
ZeroIncludes(r) == r.include_args # <<>> /\ ConcatResolutions(r.include_args) = <<>>

\* C2: when the include arguments resolve to zero paths the run ends as the reported
\* fatal configuration error (message and exit status 1) before any traversal, and
\* resolve_paths has not handed out an empty list
C2_ZeroIncludesReportedFatal ==
    (run.started /\ ZeroIncludes(run)) =>
        /\ run.outcome = "no_includes"
        /\ run.resolved_include_paths # <<>>

\* the run reached the traversal
Traversing(r) == r.started /\ r.outcome = "traverse"

\* C17: the exclude list handed to the traversal is exactly the paths the exclude
\* arguments resolve to, in order; the appended common ancestor (or the working directory
\* returned for no exclude arguments) is in it only as the resolution of an argument;
\* with no exclude arguments the list is empty
C17_ExcludeListIsTheResolvedArguments ==
    Traversing(run) =>
        /\ run.exclude_paths = ConcatResolutions(run.exclude_args)
        /\ run.exclude_args = <<>> => run.exclude_paths = <<>>

\* C17 witness: a glob exclude argument matching two files, whose common ancestor /w/a
\* was appended by resolve_paths and is not in the list handed over
C17_Witness ==
    /\ Traversing(run)
    /\ run.exclude_args = << S_astar >>
    /\ Last(run.resolved_exclude_paths) = <<Nw, Na>>
    /\ run.exclude_paths = << <<Nw, Na, NgPY>>, <<Nw, Na, Nfpy>> >>

\* C18: in every run that reaches the traversal the include list handed to the filter
\* chain contains the traversal root, which is the appended common ancestor (the working
\* directory without include arguments), so that the include-path confinement test
\* accepts every item at or under the traversal root
C18_IncludeListHoldsTraversalRoot ==
    Traversing(run) =>
        /\ run.root_dir \in Range(run.resolved_include_paths)
        /\ run.root_dir = IF run.include_args = <<>> THEN Cwd
                          ELSE CommonPath(ConcatResolutions(run.include_args))
        /\ \A item \in FsPaths :
              IsRelativeTo(item, run.root_dir) => is_under(item, run.resolved_include_paths)

\* C18 witness: a traversal rooted at /w/a, which no include argument resolves to
C18_Witness ==
    /\ Traversing(run)
    /\ run.include_args = << S_astar >>
    /\ run.root_dir = <<Nw, Na>>
    /\ run.root_dir \notin Range(ConcatResolutions(run.include_args))
(***************************************************************************)
(* Specification of the caching components of a run: one PathResolver and  *)
(* one PerformanceCache, queried in any order over an unchanged filesystem.*)
(***************************************************************************)
InitCache ==
    IdleLimits /\ IdleCache /\ IdleWalk /\ IdleFilter /\ IdleResolver /\ IdleRun /\ IdleGitIgnore /\ IdleMatcher

NextCache == IsDirCached \/ ExistsCached \/ ResolveCached \/ IsUnderCached \/ CacheResolvePaths

SpecCache == InitCache /\ [][NextCache]_vars

\* resolve_paths computed from the filesystem alone: the run ends at an argument that is
\* no glob and does not exist, otherwise the arguments' resolutions and their common
\* ancestor
UncachedResolvePaths(path_strings) ==
    IF path_strings = <<>> THEN [exit |-> FALSE, paths |-> << Cwd >>]
    ELSE IF \E i \in 1..Len(path_strings) :
               ~is_glob(path_strings[i]) /\ ~ExistsFrom(Cwd, PathParts(path_strings[i]))
    THEN [exit |-> TRUE, paths |-> << >>]
    ELSE LET calculated == ConcatResolutions(path_strings) IN
         [exit |-> FALSE,
          paths |-> IF calculated = <<>> THEN << >>
                    ELSE Append(calculated, CommonPath(calculated))]

\* the answer to a query computed from the filesystem alone
UncachedAnswer(query) ==
    CASE query[1] = "is_dir" -> PathIsDir(query[2])
      [] query[1] = "exists" -> PathExists(query[2])
      [] query[1] = "resolve" -> PathResolve(query[2])
      [] query[1] = "is_under" -> (query[2] = query[3] \/ IsRelativeTo(query[2], query[3]))
      [] query[1] = "resolve_paths" -> UncachedResolvePaths(query[2])

\* C13: whatever the caches hold, every query (resolve_paths, is_dir_cached,
\* exists_cached, resolve_cached, is_under_cached) returns what the uncached computation
\* returns, and what the same query returned the first time, clear-all evictions included
C13_CacheNeverAffectsAnswer ==
    pccall.called =>
        /\ pccall.result = UncachedAnswer(pccall.query)
        /\ pccall.result = pccall.first[pccall.query]

\* C13 witness: a query repeated after the overflow of its cache had evicted its answer,
\* computed again
C13_Witness ==
    /\ pccall.called /\ pccall.repeated /\ pccall.computed
    /\ pccall.query[1] = "exists"
    /\ pccall.result

\* C14: every cache container holds at most its configured maximum number of entries:
\* the four maps and the two known sets of PerformanceCache at most max_cache_size, the
\* exclusion cache of GitIgnoreMatcher at most its _max_cache_size
C14_EveryCacheBounded ==
    /\ Cardinality(DOMAIN pc.is_dir_cache) <= pc.max_cache_size
    /\ Cardinality(DOMAIN pc.exists_cache) <= pc.max_cache_size
    /\ Cardinality(DOMAIN pc.resolved_path_cache) <= pc.max_cache_size
    /\ Cardinality(DOMAIN pc.is_under_cache) <= pc.max_cache_size
    /\ Cardinality(pc.known_dirs) <= pc.max_cache_size
    /\ Cardinality(pc.known_files) <= pc.max_cache_size
    /\ Cardinality(DOMAIN gm.exclusion_cache) <= max_cache_size

(***************************************************************************)
(* Specification of one GitIgnore object over a tree of .gitignore files.  *)
(***************************************************************************)
InitGitIgnore ==
    /\ IdleLimits /\ IdleCache /\ IdleWalk /\ IdleFilter /\ IdleResolver /\ IdleRun /\ IdleMatcher
    /\ fsig \in FsContents
    /\ gi = [built |-> FALSE]
    /\ gicall = NoGitIgnoreCall
    /\ reads = {}

NextGitIgnore == Construct \/ LoadFromRoots \/ Excluded

SpecGitIgnore == InitGitIgnore /\ [][NextGitIgnore]_vars
\* the relative path strings excluded() tests for the last call: the plain form, and for
\* a directory the form with a trailing slash
PlainForm(c, root) == AsPosix(RelativeTo(c.item_path, root))
SlashForm(c, root) == PlainForm(c, root) \o <<"/">>
IsDirQuery(c) == c.item_path \in GiDirs

RuleMatches(patterns, i, file) == PatternMatches(CompilePattern(patterns[i]), file)
RuleNegated(patterns, i) == StartsWith(patterns[i], "!")

\* the last rule matching file is not negated
LastMatchExcludes(patterns, file) ==
    \E i \in 1..Len(patterns) :
        /\ RuleMatches(patterns, i, file)
        /\ ~RuleNegated(patterns, i)
        /\ \A j \in (i+1)..Len(patterns) : ~RuleMatches(patterns, j, file)

\* a call on an enabled object holding one scope that the path lies in
OneScopeCall ==
    /\ gicall.called /\ gi.enabled
    /\ Len(gi.specs) = 1
    /\ IsRelativeTo(gicall.item_path, gi.specs[1].root)

\* C6: within one scope the last matching rule decides, a directory matching a rule in
\* its plain form or in its trailing-slash form: the path is excluded iff the last rule
\* matching it is not negated
C6_LastMatchingRuleDecides ==
    OneScopeCall =>
        LET patterns == gi.specs[1].patterns
            root == gi.specs[1].root
            matches(i) == \/ RuleMatches(patterns, i, PlainForm(gicall, root))
                          \/ IsDirQuery(gicall) /\ RuleMatches(patterns, i, SlashForm(gicall, root))
        IN gicall.result =
              \E i \in 1..Len(patterns) :
                  /\ matches(i)
                  /\ ~RuleNegated(patterns, i)
                  /\ \A j \in (i+1)..Len(patterns) : ~matches(j)

\* the rules of the negation law, ["build/", "!build/keep.txt"], with b for build and k
\* for keep.txt
NegationLawRules == << <<"b", "/">>, <<"!", "b", "/", "k">> >>

\* C6 as amended: a file is excluded iff the last rule matching its relative path is not
\* negated; a directory is excluded iff that holds of its relative path or of its
\* relative path with a trailing slash, each form being decided by its own last
\* matching rule. Under ["build/", "!build/keep.txt"] the directory build is excluded
\* and build/keep.txt is not
C6_LastMatchPerForm ==
    OneScopeCall =>
        LET patterns == gi.specs[1].patterns
            root == gi.specs[1].root
        IN /\ gicall.result =
                ( \/ LastMatchExcludes(patterns, PlainForm(gicall, root))
                  \/ IsDirQuery(gicall)
                     /\ LastMatchExcludes(patterns, SlashForm(gicall, root)) )
           /\ (patterns = NegationLawRules /\ root = GiRoot) =>
                /\ gicall.item_path = GiBuild => gicall.result
                /\ gicall.item_path = <<Nr, Nb, Nk>> => ~gicall.result

\* C6 witness: build/keep.txt asked about under the rules of the negation law
C6_Witness ==
    /\ OneScopeCall
    /\ gi.specs[1].patterns = NegationLawRules
    /\ gicall.item_path = <<Nr, Nb, Nk>>
    /\ ~gicall.result

\* the filesystem with only the .gitignore files of the directories in keep
RestrictFs(fs, keep) == [d \in GiHolders |-> IF d \in keep THEN fs[d] ELSE NoFile]

\* excluded() of an enabled object in recursive mode over the filesystem fs
RecursiveAnswer(fs, gitignore_depth, item_path) ==
    excluded_loop(load_from_roots(fs, gitignore_depth, << GiRoot >>).specs, 1, EmptyDict,
                  item_path, item_path \in GiDirs).result

\* C7: in recursive mode the patterns of the .gitignore of a directory d never exclude
\* or re-include a path outside d's subtree: the answer for a path is the answer given
\* by the .gitignore files of the directories the path lies in or under
C7_NestedPatternsStayInSubtree ==
    (gicall.called /\ gi.enabled /\ gi.recursive) =>
        gicall.result =
            RecursiveAnswer(RestrictFs(fsig, { d \in GiHolders : IsRelativeTo(gicall.item_path, d) }),
                            gi.gitignore_depth, gicall.item_path)

\* C8: in recursive mode with gitignore depth D, a .gitignore in a directory deeper than D
\* below the scope root contributes no patterns
C8_NoPatternsBeyondDepth ==
    (gi.built /\ gi.recursive /\ gi.gitignore_depth # <<>>) =>
        gi.specs =
            load_from_roots(
                RestrictFs(fsig, { d \in GiHolders :
                                     Len(RelativeTo(d, GiRoot)) <= gi.gitignore_depth[1] }),
                gi.gitignore_depth, << GiRoot >>).specs

\* C10: with gitignore filtering off, excluded returns false for every path and no
\* .gitignore file is read during the object's life, construction included
C10_DisabledReadsNothing ==
    (gi.built /\ ~gi.enabled) =>
        /\ reads = {}
        /\ gicall.called => ~gicall.result

\* C10 as amended: with gitignore filtering off, excluded returns false for every path
\* and the call touches no file; the .gitignore files are read when the object is
\* constructed and when it loads patterns, whatever the flag
C10_DisabledExcludedTouchesNothing ==
    (gi.built /\ ~gi.enabled) =>
        /\ gicall.called => (~gicall.result /\ gicall.fs_access = {})
        /\ HasGitignore(fsig, gi.root_path) => gi.root_path \in reads

\* C10 witness: a disabled object whose .gitignore was read at construction and whose
\* rules would exclude the path asked about
C10_Witness ==
    /\ gi.built /\ ~gi.enabled /\ gicall.called
    /\ reads # {}
    /\ ~gicall.result
    /\ gitignore_excluded([gi EXCEPT !.enabled = TRUE], gicall.item_path).result
\* what the .gitignore of the directory d alone says of the path of the call: whether one
\* of its rules matches the path relative to d (a directory also in its trailing-slash
\* form), and whether a scope made of that file excludes the path
OwnRules(d) == parse_gitignore_file(fsig, d)
OwnRuleMatches(d, c) ==
    \E i \in 1..Len(OwnRules(d)) :
        \/ RuleMatches(OwnRules(d), i, PlainForm(c, d))
        \/ IsDirQuery(c) /\ RuleMatches(OwnRules(d), i, SlashForm(c, d))
OwnVerdict(d, c) ==
    gitignore_excluded(new_gitignore(fsig, [gitignore |-> TRUE, gitignore_depth |-> <<>>], d).self,
                       c.item_path).result

StrictAncestor(a, d) == a # d /\ IsRelativeTo(d, a)

\* C16: in recursive mode a nested .gitignore's rule overrides a conflicting rule of an
\* ancestor's .gitignore: when the .gitignore files of a directory n and of an ancestor a
\* of n both have a rule matching a path under n, with opposite verdicts, and no
\* .gitignore deeper than n has a rule matching the path, the answer is the verdict of
\* n's file
C16_NestedRuleOverridesAncestor ==
    (gicall.called /\ gi.enabled /\ gi.recursive /\ gi.gitignore_depth = <<>>) =>
        \A n \in GiHolders, a \in GiHolders :
            ( /\ StrictAncestor(a, n)
              /\ StrictAncestor(n, gicall.item_path)
              /\ OwnRuleMatches(n, gicall) /\ OwnRuleMatches(a, gicall)
              /\ OwnVerdict(n, gicall) # OwnVerdict(a, gicall)
              /\ \A d \in GiHolders :
                    (StrictAncestor(n, d) /\ StrictAncestor(d, gicall.item_path))
                        => ~OwnRuleMatches(d, gicall) )
            => gicall.result = OwnVerdict(n, gicall)

(***************************************************************************)
(* Specification of one walk of GitIgnore._walk_dirs from the scope root,  *)
(* and the same under weak fairness of the loop: the generator is run to   *)
(* its end by the for loop of _collect_patterns.                           *)
(***************************************************************************)
InitWalk ==
    /\ IdleLimits /\ IdleCache /\ IdleFilter /\ IdleResolver /\ IdleRun /\ IdleMatcher
    /\ fsig \in WalkFs
    /\ gi = [built |-> FALSE]
    /\ gicall = NoGitIgnoreCall
    /\ reads = {}
    /\ wk \in { NewWalk(tree, gitignore_depth, GiRoot) :
                   tree \in WalkTrees,
                   gitignore_depth \in { <<>> } \cup { << n >> : n \in 0..MaxGitignoreDepth } }

NextWalk == WalkIteration

SpecWalk == InitWalk /\ [][NextWalk]_vars

SpecWalkFair == InitWalk /\ [][NextWalk]_vars /\ WF_vars(WalkIteration)

WalkDone == wk.stack = <<>>

\* the directories a walk is to yield: the root, and every directory below it that is no
\* symlink and whose ancestors up to the root are listable, no symlinks, and within the
\* depth the walk descends from
WalkExpected(w) ==
    { d \in w.tree.dirs \ w.tree.symlinks :
        /\ IsRelativeTo(d, w.root)
        /\ \A k \in Len(w.root)..(Len(d) - 1) :
              LET a == SubSeq(d, 1, k) IN
              /\ a \notin w.tree.unreadable
              /\ a \notin w.tree.symlinks
              /\ w.gitignore_depth = <<>> \/ k - Len(w.root) <= w.gitignore_depth[1] }

WalkSafe ==
    /\ wk.yielded # <<>> => wk.yielded[1] = wk.root
    /\ \A i, j \in 1..Len(wk.yielded) : i # j => wk.yielded[i] # wk.yielded[j]
    /\ \A i \in 1..Len(wk.yielded) :
          /\ \A l \in wk.tree.symlinks : ~IsRelativeTo(wk.yielded[i], l)
          /\ wk.yielded[i] # wk.root => Parent(wk.yielded[i]) \notin wk.tree.unreadable
    /\ WalkDone => Range(wk.yielded) = WalkExpected(wk)

\* C15: the walk of _walk_dirs ends on every tree; it yields the scope root first and no
\* directory twice, yields no symlinked directory nor anything below one, yields no child
\* of a directory whose listing raises, and has yielded every other directory in reach
\* when it ends
C15_WalkTerminatesSafely == <>WalkDone /\ []WalkSafe

\* C15 witness: a finished walk that met a directory it could not list, and the symlink,
\* and went on to yield the directories that remained
C15_Witness ==
    /\ WalkDone
    /\ GiSub \in wk.tree.unreadable
    /\ wk.tree.listing[GiOther][1] = GiLink
    /\ \E i, j \in 1..Len(wk.yielded) :
          i < j /\ wk.yielded[i] = GiSub /\ wk.yielded[j] = GiOtherSub

\* the combined pattern list _collect_patterns makes of the directories yielded
WalkPatterns == collect_over(fsig, wk.root, wk.yielded).patterns

\* the ordering in the combined pattern list: the patterns of a directory's .gitignore
\* come after the patterns of every ancestor's .gitignore, whatever the listing order
NestedAfterAncestors ==
    WalkDone =>
        \A a, n \in Range(wk.yielded) :
            StrictAncestor(a, n) =>
                \A i, j \in 1..Len(WalkPatterns) :
                    ( /\ WalkPatterns[i] \in Range(collect_over(fsig, wk.root, << a >>).patterns)
                      /\ WalkPatterns[j] \in Range(collect_over(fsig, wk.root, << n >>).patterns) )
                    => i < j

(***************************************************************************)
(* Specification of one GitIgnoreMatcher: scopes are added and paths asked *)
(* about in any order.                                                     *)
(***************************************************************************)
InitMatcher ==
    /\ IdleLimits /\ IdleCache /\ IdleWalk /\ IdleFilter /\ IdleResolver /\ IdleRun /\ IdleMatcher
    /\ fsig \in MatcherFs
    /\ gi = [built |-> FALSE]
    /\ gicall = NoGitIgnoreCall
    /\ reads = {}

NextMatcher == AddGitignore \/ MatcherExcluded

SpecMatcher == InitMatcher /\ [][NextMatcher]_vars

\* scope i of the scopes registered when the call was made has a root the path lies at or
\* under, and reports the path excluded
ScopeApplies(c, i) == IsRelativeTo(c.item_path, c.gitignores[i].root_path)
ScopeExcludes(c, i) == gitignore_excluded(c.gitignores[i].gitignore, c.item_path).result

\* C5: excluded(path) is true iff a registered scope whose root is an ancestor of or equal
\* to the path reports it excluded; a scope whose root is no ancestor is not consulted
C5_AnyApplicableScope ==
    gmcall.called =>
        /\ gmcall.result =
              \E i \in 1..Len(gmcall.gitignores) : ScopeApplies(gmcall, i) /\ ScopeExcludes(gmcall, i)
        /\ \A i \in gmcall.consulted : ScopeApplies(gmcall, i)

\* C5 witness: a registered scope that would report the path excluded but whose root is no
\* ancestor of the path, and the path is not excluded
C5_Witness ==
    /\ gmcall.called /\ ~gmcall.result
    /\ \E i \in 1..Len(gmcall.gitignores) : ~ScopeApplies(gmcall, i) /\ ScopeExcludes(gmcall, i)

\* the evaluation of excluded(path) without a cache over the scopes given
Uncached(gitignores, item_path) ==
    matcher_excluded([gitignores |-> gitignores, exclusion_cache |-> EmptyDict], item_path).result

\* C9: every answer is the answer of the uncached evaluation over the scopes registered
\* when it is given, and every cached answer is the uncached answer over the scopes
\* registered now: neither adding a scope nor the clear-all on overflow leaves a stale one
C9_CacheNeverStale ==
    /\ gmcall.called => gmcall.result = Uncached(gmcall.gitignores, gmcall.item_path)
    /\ \A k \in DOMAIN gm.exclusion_cache : gm.exclusion_cache[k] = Uncached(gm.gitignores, k)

\* C9 witness: the same path asked about twice in a row, not excluded the first time and
\* excluded the second, a scope having been added in between
C9_Witness ==
    /\ gmcall.called /\ gmcall.prev # <<>>
    /\ gmcall.prev[1].item_path = gmcall.item_path
    /\ ~gmcall.prev[1].result
    /\ gmcall.result
====
